---- MODULE Spec2Model ----
(***************************************************************************)
(* Sandboxed code execution of oinkerui's Python tools backend:            *)
(*   core/path_validator.py      path confinement                          *)
(*   services/sandbox_service.py per-project environment manager           *)
(*   services/execution_service.py execution engine                        *)
(*                                                                         *)
(* A file name is a tuple of one-character strings, a path string is a     *)
(* record [given, abs, comps] (given = FALSE stands for Python's None), an  *)
(* absolute normalised path is the tuple of its names, <<>> being "/".      *)
(***************************************************************************)
EXTENDS Integers, Sequences, FiniteSets, TLC

VARIABLES
    fs,        \* the file system: absolute path -> node
    vp,        \* one call of the path validator: its inputs and its outcome
    call,      \* the execute_code call in progress (its locals) or the last one ended
    nCalls,    \* execute_code calls started so far
    procs,     \* the live processes started by executions
    cache,     \* SandboxManager._cache: canonical project path -> sandbox
    acq,       \* the create_sandbox call of each caller (its locals)
    nUuid,     \* uuid.uuid4() values drawn so far
    now,       \* datetime.now()
    issued,    \* per project, the id of the sandbox last returned to a caller
    rel,       \* the cleanup_sandbox call in progress and what it returns
    environ,   \* os.environ of the server process
    resp       \* the answer of the /tools/execute endpoint being sent

mgrVars == <<cache, acq, nUuid, now, issued>>
engVars == <<call, nCalls, procs>>
vars == <<fs, vp, call, nCalls, procs, cache, acq, nUuid, now, issued, rel,
          environ, resp>>

-----------------------------------------------------------------------------
(* Names and paths of the modelled file system *)

DOT    == <<".">>
DOTDOT == <<".", ".">>
nP     == <<"p">>
nP2    == <<"p", "2">>
nLP    == <<"l", "p">>
nE     == <<"e">>
nF     == <<"f">>
nNX    == <<"n", "x">>
nS     == <<"s">>
nD     == <<"d">>
nL     == <<"l">>
nA     == <<"a">>
nB     == <<"b">>
nDX    == <<"d", ".", "x">>
nVENV  == <<".", "v", "e", "n", "v">>
nBIN   == <<"b", "i", "n">>
nPY    == <<"p", "y", "t", "h", "o", "n">>
nPIP   == <<"p", "i", "p">>
nPY3   == <<"p", "y", "t", "h", "o", "n", "3">>
nBASH  == <<"b", "a", "s", "h">>
nLIB   == <<"l", "i", "b">>
nJSON  == <<"s", "a", "n", "d", "b", "o", "x", ".", "j", "s", "o", "n">>
nCACHE == <<"_", "_", "p", "y", "c", "a", "c", "h", "e", "_", "_">>

SEP == "/"

Root    == <<>>
ProjP   == <<nP>>
SibP2   == <<nP2>>
LinkLP  == <<nLP>>
OutE    == <<nE>>
FileF   == <<nF>>
SubS    == <<nP, nS>>
SubD    == <<nP, nD>>
LinkL   == <<nP, nL>>
FileA   == <<nP, nA>>
FileB   == <<nP, nD, nB>>
FileDX  == <<nP, nDX>>

Abs(comps) == [given |-> TRUE, abs |-> TRUE, comps |-> comps]
Rel(comps) == [given |-> TRUE, abs |-> FALSE, comps |-> comps]
None       == [given |-> FALSE, abs |-> FALSE, comps |-> <<>>]

\* what a file holds, read as JSON metadata: json |-> FALSE does not parse
NoData == [json |-> FALSE, has_id |-> FALSE, id |-> 0, created_at |-> 0,
           packages |-> {}]

\* a node: its kind, a symlink's target, a file's modification time and content
NoNode      == [kind |-> "none", target |-> None, mtime |-> 0, data |-> NoData]
DirNode     == [kind |-> "dir",  target |-> None, mtime |-> 0, data |-> NoData]
FileNode    == [kind |-> "file", target |-> None, mtime |-> 0, data |-> NoData]
LinkNode(t) == [kind |-> "link", target |-> t,    mtime |-> 0, data |-> NoData]
DataNode(d) == [kind |-> "file", target |-> None, mtime |-> 0, data |-> d]

\* the canonical project directories, and the environment each may hold
ProjectDirs == { ProjP }

venv_path(project_path)     == project_path \o <<nVENV>>
bin_path(project_path)      == venv_path(project_path) \o <<nBIN>>
python_path(project_path)   == venv_path(project_path) \o <<nBIN, nPY>>
pip_path(project_path)      == venv_path(project_path) \o <<nBIN, nPIP>>
lib_path(project_path)      == venv_path(project_path) \o <<nLIB>>
metadata_path(project_path) == venv_path(project_path) \o <<nJSON>>

EnvPaths ==
    UNION { { venv_path(d), bin_path(d), python_path(d), pip_path(d),
              lib_path(d), metadata_path(d) } : d \in ProjectDirs }

\* The tree without environments; SubS is the part that processes change.
PlainFs ==
    (Root   :> DirNode) @@ (ProjP :> DirNode) @@ (SibP2 :> DirNode) @@
    (OutE   :> DirNode) @@ (FileF :> FileNode) @@
    (LinkLP :> LinkNode(Abs(ProjP))) @@
    (SubD   :> DirNode) @@ (LinkL :> LinkNode(Abs(OutE))) @@
    (SubS   :> DirNode) @@ (FileA :> FileNode) @@
    (FileB  :> NoNode) @@ (FileDX :> NoNode)

BaseFs == PlainFs @@ [q \in EnvPaths |-> NoNode]

Node(f, p) == IF p \in DOMAIN f THEN f[p] ELSE NoNode

-----------------------------------------------------------------------------
(* os.path *)

\* Python truthiness of an optional string
Truthy(s) == s.given /\ (s.abs \/ s.comps # <<>>)

Front(s) == SubSeq(s, 1, Len(s) - 1)

\* os.path.join(base_dir, path) for an absolute base_dir
join(base, path) ==
    IF path.abs THEN path.comps ELSE base \o path.comps

MaxLinkDepth == 4

\* posixpath._joinrealpath, non-strict: '.' dropped, '..' pops the resolved
\* prefix, a symlink is replaced by its resolved target, a missing name is kept
RECURSIVE joinrealpath(_, _, _, _)
joinrealpath(f, path, rest, fuel) ==
    IF rest = <<>> THEN path
    ELSE LET name == Head(rest)
             r    == Tail(rest)
         IN  IF name = DOT THEN joinrealpath(f, path, r, fuel)
             ELSE IF name = DOTDOT
                  THEN joinrealpath(f, IF path = <<>> THEN <<>> ELSE Front(path), r, fuel)
             ELSE LET newpath == Append(path, name)
                      n       == Node(f, newpath)
                  IN  IF n.kind = "link" /\ fuel > 0
                      THEN joinrealpath(f,
                               joinrealpath(f, IF n.target.abs THEN <<>> ELSE path,
                                            n.target.comps, fuel - 1),
                               r, fuel)
                      ELSE joinrealpath(f, newpath, r, fuel)

\* os.path.realpath of an absolute path given by its names
realpath(f, comps) == joinrealpath(f, <<>>, comps, MaxLinkDepth)

\* os.path.exists / os.path.isdir (both follow symlinks)
exists(f, comps) == Node(f, realpath(f, comps)).kind \in {"dir", "file"}
\* os.path.exists in the place of os.path.isdir
isdir_AnyKind(f, comps) == Node(f, realpath(f, comps)).kind \in {"dir", "file"}

isdir(f, comps)  == Node(f, realpath(f, comps)).kind = "dir"

\* the characters of the string of an absolute normalised path
RECURSIVE StrOf(_)
StrOf(comps) ==
    IF comps = <<>> THEN <<>>
    ELSE <<SEP>> \o Head(comps) \o StrOf(Tail(comps))

PathString(comps) == IF comps = <<>> THEN <<SEP>> ELSE StrOf(comps)

\* str.startswith
startswith(s, prefix) ==
    /\ Len(prefix) <= Len(s)
    /\ SubSeq(s, 1, Len(prefix)) = prefix

-----------------------------------------------------------------------------
(* core/path_validator.py *)

Ok(p)       == [ok |-> TRUE,  path |-> p,    error |-> "none"]
Raise(kind) == [ok |-> FALSE, path |-> <<>>, error |-> kind]

\* the confinement test without the separator: a prefix test on the names' text
validate_path_NoSep(f, path, base_dir) ==
    LET base_real   == realpath(f, base_dir)
        target_real == realpath(f, join(base_dir, path))
    IN  IF /\ ~startswith(PathString(target_real), PathString(base_real))
           /\ target_real # base_real
        THEN Raise("PathValidationError")
        ELSE Ok(target_real)

\* lines 15-37 without the test of lines 33-35
validate_path_NoCheck(f, path, base_dir) == Ok(realpath(f, join(base_dir, path)))

validate_path(f, path, base_dir) ==
    LET base_real   == realpath(f, base_dir)
        target_real == realpath(f, join(base_dir, path))
    IN  IF /\ ~startswith(PathString(target_real), PathString(base_real) \o <<SEP>>)
           /\ target_real # base_real
        THEN Raise("PathValidationError")
        ELSE Ok(target_real)

\* lines 40-61 returning the path as it was given
validate_project_path_AsGiven(f, project_path) ==
    LET real_path == realpath(f, project_path)
    IN  IF ~exists(f, real_path) THEN Raise("PathValidationError")
        ELSE IF ~isdir(f, real_path) THEN Raise("PathValidationError")
        ELSE Ok(project_path)

validate_project_path(f, project_path) ==
    LET real_path == realpath(f, project_path)
    IN  IF ~exists(f, real_path) THEN Raise("PathValidationError")
        ELSE IF ~isdir(f, real_path) THEN Raise("PathValidationError")
        ELSE Ok(real_path)

-----------------------------------------------------------------------------
(* Inputs of the path validator: candidates, boundaries, file systems *)

\* what SubS can be: absent, a directory, or a symlink (outward, inward)
SubSNodes ==
    { NoNode, DirNode, LinkNode(Abs(OutE)),
      LinkNode(Rel(<<nD>>)), LinkNode(Rel(<<DOTDOT, DOTDOT, nE>>)) }

FsVariants == { [BaseFs EXCEPT ![SubS] = n] : n \in SubSNodes }

\* candidate strings: "", ".", "s", "d", "a", "nx", "l", "l/x", "d/../s",
\* "../p", "../p2", "../../e", "..", "/e", "/p/d", "/p2", "s/..", "d/../a"
Candidates ==
    { Rel(<<>>), Rel(<<DOT>>), Rel(<<nS>>), Rel(<<nD>>), Rel(<<nA>>),
      Rel(<<nNX>>), Rel(<<nL>>), Rel(<<nL, nA>>), Rel(<<nD, DOTDOT, nS>>),
      Rel(<<DOTDOT, nP>>), Rel(<<DOTDOT, nP2>>), Rel(<<DOTDOT, DOTDOT, nE>>),
      Rel(<<DOTDOT>>), Abs(OutE), Abs(SubD), Abs(SibP2), Rel(<<nS, DOTDOT>>),
      Rel(<<nD, DOTDOT, nA>>) }

Boundaries == { ProjP, LinkLP, SubD, Root }

VpIdle == [phase |-> "idle", path |-> None, base |-> Root, out |-> Raise("none")]

-----------------------------------------------------------------------------
(* services/sandbox_service.py: the child's environment variables *)

\* the map laid over a copy of the server's own environment
create_sandbox_env_Inherit(project_path) ==
    [PATH         |-> "/usr/bin:/bin:/usr/local/bin",
     HOME         |-> project_path,
     PROJECT_ROOT |-> project_path,
     LANG         |-> "C.UTF-8",
     LC_ALL       |-> "C.UTF-8"] @@ environ

create_sandbox_env(project_path) ==
    [PATH         |-> "/usr/bin:/bin:/usr/local/bin",
     HOME         |-> project_path,
     PYTHONPATH   |-> "",
     PROJECT_ROOT |-> project_path,
     LANG         |-> "C.UTF-8",
     LC_ALL       |-> "C.UTF-8",
     http_proxy   |-> "",
     https_proxy  |-> ""]

-----------------------------------------------------------------------------
(* The server process: its environment variables *)

\* os.environ of a server: credentials, a proxy, the user's PATH and HOME
HostEnv ==
    [PATH |-> "/home/u/bin:/usr/bin", HOME |-> <<<<"h">>>>, SECRET |-> "k1",
     http_proxy |-> "http://proxy:1", LANG |-> "en_US.UTF-8"]

\* the same server started from another shell
HostEnvs ==
    { HostEnv,
      [PATH |-> "/usr/bin", HOME |-> <<<<"h">>>>, SECRET |-> "k2",
       https_proxy |-> "http://proxy:2", PYTHONPATH |-> "/lib"] }

-----------------------------------------------------------------------------
(* services/sandbox_service.py: SandboxManager *)

NoSandbox ==
    [given |-> FALSE, id |-> 0, project_path |-> <<>>, venv_path |-> <<>>,
     python_path |-> <<>>, created_at |-> 0, status |-> ""]

\* self._cache = {}: a dict from path strings to sandboxes
NoCache == [key \in {} |-> NoSandbox]

\* a cache that holds one sandbox
dict_set_Single(dict, key, value) == [k \in {key} |-> value]

\* self._cache[key] = sandbox
dict_set(dict, key, value) ==
    [k \in DOMAIN dict \cup {key} |-> IF k = key THEN value ELSE dict[k]]

\* del self._cache[key]
dict_del(dict, key) == [k \in DOMAIN dict \ {key} |-> dict[k]]

\* self._cache[key] guarded by "key in self._cache"
Cached(key) == IF key \in DOMAIN cache THEN cache[key] ELSE NoSandbox

Callers == {1, 2}

AcqIdle ==
    [pc |-> "idle",
     \* the arguments
     project_path |-> None, packages |-> {},
     \* the locals
     project |-> <<>>, sandbox_id |-> 0,
     \* what the call has done so far, and the id in the sidecar of the
     \* directory it removed (0: it removed none, or one without an id)
     did |-> {}, removed_id |-> 0,
     \* how it ended
     error |-> "none", ret |-> NoSandbox]

\* the directory left as it is
rmtree_Nothing(f, root) == f

\* shutil.rmtree
rmtree(f, root) ==
    [q \in DOMAIN f |->
        IF Len(q) >= Len(root) /\ SubSeq(q, 1, Len(root)) = root
        THEN NoNode ELSE f[q]]

\* line 162-164
validate_sandbox(f, sandbox) == exists(f, sandbox.python_path)

\* lines 166-182: whether the id comes from uuid4 and not from the sidecar
load_draws_id(f, venv) ==
    ~exists(f, venv \o <<nJSON>>) \/ ~Node(f, venv \o <<nJSON>>).data.has_id

\* lines 166-182; fresh is the uuid4 drawn. The outcome is the sandbox, or the
\* exception json.load raises on a sidecar that is no JSON
load_sandbox(f, venv, fresh) ==
    LET meta == Node(f, venv \o <<nJSON>>)
    IN  IF exists(f, venv \o <<nJSON>>) /\ ~meta.data.json
        THEN [error |-> "JSONDecodeError", sandbox |-> NoSandbox]
        ELSE LET metadata == IF exists(f, venv \o <<nJSON>>) THEN meta.data
                             ELSE [NoData EXCEPT !.has_id = TRUE, !.id = fresh]
             IN  [error |-> "none",
                  sandbox |->
                     [given        |-> TRUE,
                      id           |-> IF metadata.has_id THEN metadata.id ELSE fresh,
                      project_path |-> Front(venv),
                      venv_path    |-> venv,
                      python_path  |-> venv \o <<nBIN, nPY>>,
                      created_at   |-> metadata.created_at,
                      status       |-> "ready"]]

MaxUuid == 3

PackageLists == { {}, {"pkg"} }

\* lines 48-55: the project path, then the cache
AcqStart(c, project_path, packages) ==
    /\ acq[c].pc = "idle"
    /\ call.pc = "idle"
    /\ rel.pc = "idle"
    /\ LET pv == validate_project_path(fs, project_path.comps)
           a  == [AcqIdle EXCEPT !.project_path = project_path,
                                 !.packages = packages]
       IN  acq' = [acq EXCEPT ![c] =
               IF ~pv.ok
               THEN [a EXCEPT !.pc = "raised", !.error = pv.error]
               ELSE IF Cached(pv.path).given /\ validate_sandbox(fs, Cached(pv.path))
               THEN [a EXCEPT !.pc = "returned", !.project = pv.path,
                              !.did = {"hit"}, !.ret = Cached(pv.path)]
               ELSE [a EXCEPT !.pc = "disk", !.project = pv.path]]
    /\ UNCHANGED <<fs, vp, rel, environ, resp, engVars, cache, nUuid, now, issued>>

\* lines 57-70: an environment already on disk is loaded, a directory without
\* interpreter is removed
AcqDisk(c) ==
    /\ acq[c].pc = "disk"
    /\ LET d == acq[c].project
       IN  IF exists(fs, venv_path(d))
           THEN IF exists(fs, python_path(d))
                THEN /\ load_draws_id(fs, venv_path(d)) => nUuid < MaxUuid
                     /\ LET l == load_sandbox(fs, venv_path(d), nUuid + 1)
                        IN  /\ nUuid' = IF l.error = "none" /\ l.sandbox.id = nUuid + 1
                                        THEN nUuid + 1 ELSE nUuid
                            /\ IF l.error # "none"
                               THEN /\ acq' = [acq EXCEPT ![c].pc = "raised",
                                                          ![c].error = l.error]
                                    /\ cache' = cache
                               ELSE /\ acq' = [acq EXCEPT ![c].pc = "returned",
                                                          ![c].did = @ \cup {"load"},
                                                          ![c].ret = l.sandbox]
                                    /\ cache' = dict_set(cache, d, l.sandbox)
                     /\ fs' = fs
                ELSE /\ fs' = rmtree(fs, venv_path(d))
                     /\ acq' = [acq EXCEPT ![c].pc = "create",
                                           ![c].did = @ \cup {"rmtree"},
                                           ![c].removed_id =
                                               Node(fs, metadata_path(d)).data.id]
                     /\ UNCHANGED <<cache, nUuid>>
           ELSE /\ acq' = [acq EXCEPT ![c].pc = "create"]
                /\ UNCHANGED <<fs, cache, nUuid>>
    /\ UNCHANGED <<vp, rel, environ, resp, engVars, now, issued>>

\* what "python -m venv" leaves on success
venv_create(f, d) ==
    [f EXCEPT ![venv_path(d)]   = DirNode,
              ![bin_path(d)]    = DirNode,
              ![lib_path(d)]    = DirNode,
              ![python_path(d)] = FileNode,
              ![pip_path(d)]    = FileNode]

\* what "python -m venv" has written when it fails or is killed while it
\* installs pip: the directories and the interpreter
venv_partial(f, d) ==
    [f EXCEPT ![venv_path(d)]   = DirNode,
              ![bin_path(d)]    = DirNode,
              ![lib_path(d)]    = DirNode,
              ![python_path(d)] = FileNode]

\* lines 72-87: the creation primitive; when it fails (non-zero exit, 60 s
\* timeout) SandboxError is raised and what it had written so far stays
AcqCreate(c) ==
    /\ acq[c].pc = "create"
    /\ nUuid < MaxUuid
    /\ nUuid' = nUuid + 1
    /\ LET d == acq[c].project
       IN  \/ /\ fs' = venv_create(fs, d)
              /\ acq' = [acq EXCEPT ![c].pc = "upgrade",
                                    ![c].sandbox_id = nUuid + 1,
                                    ![c].did = @ \cup {"create"}]
           \/ /\ fs' \in { fs, [fs EXCEPT ![venv_path(d)] = DirNode],
                          venv_partial(fs, d) }
              /\ acq' = [acq EXCEPT ![c].pc = "raised",
                                    ![c].sandbox_id = nUuid + 1,
                                    ![c].did = @ \cup {"create"},
                                    ![c].error = "SandboxError"]
    /\ UNCHANGED <<vp, rel, environ, resp, engVars, cache, now, issued>>

\* lines 89-97: pip's upgrade of itself. Its exit status is not looked at
\* (no check=True) and TimeoutExpired is caught; the OSError subprocess.run
\* raises when the command cannot be started (no such file, no permission,
\* fork or pipe refused) is not among the caught exceptions
AcqUpgrade(c) ==
    /\ acq[c].pc = "upgrade"
    /\ IF exists(fs, pip_path(acq[c].project))
       THEN \/ acq' = [acq EXCEPT ![c].pc = "install",
                                  ![c].did = @ \cup {"upgrade"}]
            \/ acq' = [acq EXCEPT ![c].pc = "raised", ![c].error = "OSError"]
       ELSE acq' = [acq EXCEPT ![c].pc = "raised",
                               ![c].error = "FileNotFoundError"]
    /\ UNCHANGED <<fs, vp, rel, environ, resp, engVars, cache, nUuid, now, issued>>

\* lines 99-114
AcqInstall(c) ==
    /\ acq[c].pc = "install"
    /\ LET d == acq[c].project
       IN  IF acq[c].packages = {}
           THEN /\ acq' = [acq EXCEPT ![c].pc = "metadata"]
                /\ fs' = fs
           ELSE IF ~exists(fs, pip_path(d))
           THEN /\ acq' = [acq EXCEPT ![c].pc = "raised",
                                      ![c].error = "FileNotFoundError"]
                /\ fs' = fs
           ELSE \/ /\ exists(fs, lib_path(d))
                   /\ fs' = [fs EXCEPT ![lib_path(d)].data.packages =
                                            @ \cup acq[c].packages]
                   /\ acq' = [acq EXCEPT ![c].pc = "metadata",
                                         ![c].did = @ \cup {"install"}]
                \/ /\ acq' = [acq EXCEPT ![c].pc = "raised",
                                         ![c].error = "SandboxError"]
                   /\ fs' = fs
    /\ UNCHANGED <<vp, rel, environ, resp, engVars, cache, nUuid, now, issued>>

\* lines 116-138: the sidecar is written, the sandbox cached and returned
AcqMetadata(c) ==
    /\ acq[c].pc = "metadata"
    /\ LET d == acq[c].project
           metadata == [json |-> TRUE, has_id |-> TRUE, id |-> acq[c].sandbox_id,
                        created_at |-> now, packages |-> acq[c].packages]
           sandbox  == [given        |-> TRUE,
                        id           |-> acq[c].sandbox_id,
                        project_path |-> d,
                        venv_path    |-> venv_path(d),
                        python_path  |-> python_path(d),
                        created_at   |-> now,
                        status       |-> "ready"]
       IN  IF isdir(fs, venv_path(d))
           THEN /\ fs' = [fs EXCEPT ![metadata_path(d)] = DataNode(metadata)]
                /\ cache' = dict_set(cache, d, sandbox)
                /\ acq' = [acq EXCEPT ![c].pc = "returned",
                                      ![c].did = @ \cup {"metadata"},
                                      ![c].ret = sandbox]
                /\ now' = now + 1
           ELSE /\ acq' = [acq EXCEPT ![c].pc = "raised",
                                      ![c].error = "FileNotFoundError"]
                /\ UNCHANGED <<fs, cache, now>>
    /\ UNCHANGED <<vp, rel, environ, resp, engVars, nUuid, issued>>

\* the sandbox or the exception reaches the caller
AcqEnd(c) ==
    /\ acq[c].pc \in {"returned", "raised"}
    /\ issued' = IF acq[c].pc = "returned" /\ acq[c].project \in DOMAIN issued
                 THEN [issued EXCEPT ![acq[c].project] = acq[c].ret.id]
                 ELSE issued
    /\ acq' = [acq EXCEPT ![c] = AcqIdle]
    /\ UNCHANGED <<fs, vp, rel, environ, resp, engVars, cache, nUuid, now>>

RelIdle ==
    [pc |-> "idle", project_path |-> None, ret |-> FALSE,
     \* what the call has done
     removed |-> FALSE, evicted |-> FALSE]

\* line 194 with the path as it was given
cleanup_key_AsGiven(f, project_path) == project_path.comps

\* line 194
cleanup_key(f, project_path) == realpath(f, project_path.comps)

\* lines 184-203
release(project_path) ==
    /\ rel.pc = "idle"
    /\ LET d == cleanup_key(fs, project_path)
       IN  /\ fs' = IF exists(fs, d \o <<nVENV>>) THEN rmtree(fs, d \o <<nVENV>>)
                    ELSE fs
           /\ cache' = IF d \in DOMAIN cache THEN dict_del(cache, d) ELSE cache
           /\ issued' = IF d \in DOMAIN issued THEN [issued EXCEPT ![d] = 0]
                        ELSE issued
           /\ rel' = [pc |-> "returned", project_path |-> project_path,
                      ret |-> TRUE,
                      removed |-> exists(fs, d \o <<nVENV>>),
                      evicted |-> Cached(d).given]
    /\ UNCHANGED <<vp, environ, resp, engVars, acq, nUuid, now>>

\* cleanup_sandbox called while the server handles no other call
cleanup_sandbox(project_path) ==
    /\ \A c \in Callers : acq[c].pc = "idle"
    /\ call.pc = "idle"
    /\ release(project_path)

\* cleanup_sandbox called by one thread while another is in create_sandbox
cleanup_sandbox_concurrent(project_path) ==
    /\ call.pc = "idle"
    /\ release(project_path)

\* True reaches the caller
CleanupEnd ==
    /\ rel.pc = "returned"
    /\ rel' = RelIdle
    /\ UNCHANGED <<fs, vp, environ, resp, engVars, mgrVars>>

-----------------------------------------------------------------------------
(* What happens to an environment on disk besides the manager: the project
   directory is the user's and the executed code's to write *)

\* the interpreter executable is removed
DamagePython ==
    /\ \E d \in ProjectDirs :
           /\ fs[python_path(d)].kind = "file"
           /\ fs' = [fs EXCEPT ![python_path(d)] = NoNode]
    /\ UNCHANGED <<vp, rel, environ, resp, engVars, mgrVars>>

\* the sidecar is overwritten with something that is no JSON
DamageSidecar ==
    /\ \E d \in ProjectDirs :
           /\ fs[metadata_path(d)].kind = "file"
           /\ fs[metadata_path(d)].data.json
           /\ fs' = [fs EXCEPT ![metadata_path(d)] = DataNode(NoData)]
    /\ UNCHANGED <<vp, rel, environ, resp, engVars, mgrVars>>

\* An environment an earlier run of the server left: complete (uuid 1, time 1,
\* no packages), or without sidecar (its package installation had failed)
PersistedMetadata ==
    [json |-> TRUE, has_id |-> TRUE, id |-> 1, created_at |-> 1, packages |-> {}]

ReadyFs(d) ==
    [venv_create(BaseFs, d) EXCEPT ![metadata_path(d)] = DataNode(PersistedMetadata)]

EnvInits ==
    {BaseFs} \cup { ReadyFs(d) : d \in ProjectDirs }
             \cup { venv_create(BaseFs, d) : d \in ProjectDirs }

-----------------------------------------------------------------------------
(* services/execution_service.py *)

WS == {" ", "\t", "\n"}

\* str.strip
RECURSIVE lstrip(_)
lstrip(s) == IF s # <<>> /\ Head(s) \in WS THEN lstrip(Tail(s)) ELSE s
RECURSIVE rstrip(_)
rstrip(s) == IF s # <<>> /\ s[Len(s)] \in WS THEN rstrip(Front(s)) ELSE s
\* the code compared as it came
strip_Nothing(s) == s

strip(s) == rstrip(lstrip(s))

\* only the environment directory skipped
Pruned_VenvOnly(d) == d = nVENV

\* line 49: os.walk prunes these directory names
Pruned(d) == Head(d) = "." \/ d = nCACHE

\* q is a file that os.walk(directory) lists and os.path.getmtime can stat:
\* every directory between is a real directory (symlinks are not followed)
\* that is not pruned, and q is a file or a symlink to one
Walked(f, directory, q) ==
    /\ Len(q) > Len(directory)
    /\ SubSeq(q, 1, Len(directory)) = directory
    /\ \A i \in (Len(directory) + 1)..(Len(q) - 1) :
           /\ Node(f, SubSeq(q, 1, i)).kind = "dir"
           /\ ~Pruned(q[i])
    /\ \/ f[q].kind = "file"
       \/ f[q].kind = "link" /\ Node(f, realpath(f, q)).kind = "file"

\* the names of a path joined with the separator
RECURSIVE Joined(_)
Joined(names) ==
    IF Len(names) = 1 THEN names[1]
    ELSE names[1] \o <<"/">> \o Joined(Tail(names))

\* line 52: os.path.relpath(path, directory), a string
RelPath(directory, q) == Joined(SubSeq(q, Len(directory) + 1, Len(q)))

\* lines 45-59: relative path string -> modification time
snapshot_files(f, directory) ==
    LET listed == { q \in DOMAIN f : Walked(f, directory, q) }
    IN  [ r \in { RelPath(directory, q) : q \in listed } |->
              LET q == CHOOSE x \in listed : RelPath(directory, x) = r
              IN  Node(f, realpath(f, q)).mtime ]

\* the characters of the modelled names in the order of their code points
Alphabet ==
    << ".", "/", "2", "3", "_", "a", "b", "c", "d", "e", "f", "h", "i", "j",
       "l", "n", "o", "p", "s", "t", "v", "x", "y" >>

Ord(ch) == CHOOSE i \in 1..Len(Alphabet) : Alphabet[i] = ch

\* a < b for two str
RECURSIVE StrLess(_, _)
StrLess(a, b) ==
    IF b = <<>> THEN FALSE
    ELSE IF a = <<>> THEN TRUE
    ELSE IF Head(a) = Head(b) THEN StrLess(Tail(a), Tail(b))
    ELSE Ord(Head(a)) < Ord(Head(b))

\* sorted(S) for a collection of distinct str
RECURSIVE sorted(_)
sorted(S) ==
    IF S = {} THEN <<>>
    ELSE LET m == CHOOSE x \in S : \A y \in S \ {x} : StrLess(x, y)
         IN  <<m>> \o sorted(S \ {m})

\* only the paths that are new
diff_files_NewOnly(before, after) ==
    sorted({ path \in DOMAIN after : path \notin DOMAIN before })

\* lines 73-77: the paths of after that are new or whose time differs, sorted
diff_files(before, after) ==
    sorted({ path \in DOMAIN after :
                 path \notin DOMAIN before \/ before[path] # after[path] })

\* A str is a sequence of runs [w, n]: n characters that each take w bytes in
\* UTF-8; len counts characters, the encoded size counts bytes
RECURSIVE len(_)
len(s) == IF s = <<>> THEN 0 ELSE Head(s).n + len(Tail(s))

RECURSIVE Encoded(_)
Encoded(s) == IF s = <<>> THEN 0 ELSE Head(s).w * Head(s).n + Encoded(Tail(s))

\* s[:k] for k >= 0
RECURSIVE Slice(_, _)
Slice(s, k) ==
    IF s = <<>> \/ k = 0 THEN <<>>
    ELSE IF Head(s).n <= k
    THEN <<Head(s)>> \o Slice(Tail(s), k - Head(s).n)
    ELSE <<[w |-> Head(s).w, n |-> k]>>

\* line 32
MAX_OUTPUT_SIZE == 100000

\* lines 165-166: s[:MAX_OUTPUT_SIZE] if s else ""
truncate(s) == IF s # <<>> THEN Slice(s, MAX_OUTPUT_SIZE) ELSE <<>>

\* len(str(n))
RECURSIVE StrLen(_)
StrLen(n) ==
    IF n < 0 THEN 1 + StrLen(0 - n)
    ELSE IF n < 10 THEN 1 ELSE 1 + StrLen(n \div 10)

\* line 158: f"Execution timed out after {timeout}s"
TimeoutMessage(timeout) == <<[w |-> 1, n |-> 26 + StrLen(timeout) + 1]>>

NoTimeout  == [given |-> FALSE, val |-> 0]
Timeout(n) == [given |-> TRUE,  val |-> n]

DefaultTimeout  == 30
TimeoutExitCode == -1

\* what subprocess.run was given, and where the child started
NoEnv == [PATH |-> ""]

NoSpawn ==
    [given |-> FALSE, argv0 |-> None, cwd |-> <<>>, cwd_real |-> <<>>,
     env |-> NoEnv, timeout |-> 0, returncode |-> 0]

NoResult ==
    [given |-> FALSE, success |-> FALSE, exit_code |-> 0, timed_out |-> FALSE,
     stdout |-> <<>>, stderr |-> <<>>, files_modified |-> <<>>]

CallIdle ==
    [pc |-> "idle", id |-> 0,
     \* the caller: "http" for the endpoint, "direct" for a call of execute_code
     via |-> "", req_timeout |-> NoTimeout,
     \* the arguments
     code |-> <<>>, language |-> "", project_path |-> None,
     opt_working_dir |-> None, opt_timeout |-> NoTimeout,
     \* the locals
     project |-> <<>>, working_dir |-> <<>>, env |-> NoEnv,
     timeout |-> 0, files_before |-> <<>>, exit_code |-> 0, timed_out |-> FALSE,
     stdout |-> <<>>, stderr |-> <<>>, files_after |-> <<>>,
     \* the files the executed code has written and not removed since
     written |-> {},
     \* what the call has done so far, and how often it called subprocess.run
     did |-> {}, spawn |-> NoSpawn, runs |-> 0,
     \* how it ended
     error |-> "none", result |-> NoResult]

\* routers/execution.py: what the endpoint has answered; status 0 is no answer
NoResponse ==
    [pc |-> "idle", status |-> 0, error |-> "", has_message |-> FALSE,
     body |-> NoResult]

\* an HTTPException with detail {"error": kind, "message": str(e)}
ErrorResponse(status, kind) ==
    [pc |-> "sent", status |-> status, error |-> kind, has_message |-> TRUE,
     body |-> NoResult]

\* every exception answered as a security violation
Respond_AllForbidden(c) ==
    IF c.pc = "returned"
    THEN [pc |-> "sent", status |-> 200, error |-> "", has_message |-> FALSE,
          body |-> c.result]
    ELSE ErrorResponse(403, "SECURITY_ERROR")

\* routers/execution.py, lines 35-66: the answer to a call of execute_code that
\* has returned or raised; an exception no clause catches goes to the handler
\* of main.py, lines 39-50
Respond(c) ==
    IF c.pc = "returned"
    THEN [pc |-> "sent", status |-> 200, error |-> "", has_message |-> FALSE,
          body |-> c.result]
    ELSE CASE c.error = "ExecutionSecurityError" ->
                  ErrorResponse(403, "SECURITY_ERROR")
           [] c.error = "ExecutionTimeoutError" ->
                  ErrorResponse(408, "EXECUTION_TIMEOUT")
           [] c.error = "PathValidationError" ->
                  ErrorResponse(403, "PATH_VIOLATION")
           [] c.error = "ExecutionError" ->
                  ErrorResponse(400, "EXECUTION_ERROR")
           [] OTHER ->
                  ErrorResponse(500, "INTERNAL_ERROR")

\* lines 103-122: the outcome of the validation of a request
\*   error: the exception raised, or "none"; did: the steps reached
ValidateRequest(f, code, language, project_path, working_dir) ==
    IF strip(code) = <<>>
    THEN [error |-> "ExecutionError", did |-> {}, project |-> <<>>, working_dir |-> <<>>]
    ELSE IF language \notin {"python", "shell"}
    THEN [error |-> "ExecutionError", did |-> {}, project |-> <<>>, working_dir |-> <<>>]
    ELSE LET pv == validate_project_path(f, project_path.comps)
         IN  IF ~pv.ok
             THEN [error |-> pv.error, did |-> {"project"},
                   project |-> <<>>, working_dir |-> <<>>]
             ELSE IF Truthy(working_dir)
             THEN LET wv == validate_path(f, working_dir, pv.path)
                  IN  IF ~wv.ok
                      THEN [error |-> "ExecutionSecurityError",
                            did |-> {"project", "working_dir"},
                            project |-> pv.path, working_dir |-> <<>>]
                      ELSE IF ~isdir(f, wv.path)
                      THEN [error |-> "ExecutionError",
                            did |-> {"project", "working_dir"},
                            project |-> pv.path, working_dir |-> wv.path]
                      ELSE [error |-> "none", did |-> {"project", "working_dir"},
                            project |-> pv.path, working_dir |-> wv.path]
             ELSE [error |-> "none", did |-> {"project"},
                   project |-> pv.path, working_dir |-> pv.path]

MaxCalls == 2

Codes        == { <<>>, <<" ", "\n">>, <<" ", "x">> }
Languages    == { "python", "shell", "javascript" }
ProjectPaths == { Abs(ProjP), Abs(LinkLP), Abs(<<nNX>>), Abs(FileF) }
\* None, "", "s", "a", "nx", "d/../s", "../../e", "/e", "l", "../p2"
WorkingDirs  ==
    { None, Rel(<<>>), Rel(<<nS>>), Rel(<<nA>>), Rel(<<nNX>>),
      Rel(<<nD, DOTDOT, nS>>), Rel(<<DOTDOT, DOTDOT, nE>>), Abs(OutE),
      Rel(<<nL>>), Rel(<<DOTDOT, nP2>>) }
Timeouts     == { NoTimeout, Timeout(1) }
ExitStatuses == { 0, 1 }

\* who calls execute_code, and the timeout that caller was asked for
Direct(timeout) == [via |-> "direct", timeout |-> timeout]
Http(timeout)   == [via |-> "http",   timeout |-> timeout]

\* execute_code, lines 103-122
ExecuteStart(caller, code, language, project_path, working_dir, timeout) ==
    /\ call.pc = "idle"
    /\ \A c \in Callers : acq[c].pc = "idle"
    /\ rel.pc = "idle"
    /\ resp.pc = "idle"
    /\ nCalls < MaxCalls
    /\ nCalls' = nCalls + 1
    /\ LET v == ValidateRequest(fs, code, language, project_path, working_dir)
       IN  call' = [CallIdle EXCEPT
                !.pc = IF v.error = "none" THEN "prepare" ELSE "raised",
                !.id = nCalls + 1,
                !.via = caller.via, !.req_timeout = caller.timeout,
                !.code = code, !.language = language,
                !.project_path = project_path,
                !.opt_working_dir = working_dir, !.opt_timeout = timeout,
                !.project = v.project, !.working_dir = v.working_dir,
                !.did = v.did, !.error = v.error]
    /\ UNCHANGED <<fs, vp, rel, environ, resp, procs, mgrVars>>

\* lines 124-126
ExecutePrepare ==
    /\ call.pc = "prepare"
    /\ call' = [call EXCEPT
            !.pc = "snapshot",
            !.env = create_sandbox_env(call.project),
            !.timeout = IF call.opt_timeout.given THEN call.opt_timeout.val
                        ELSE DefaultTimeout,
            !.did = @ \cup {"env"}]
    /\ UNCHANGED <<fs, vp, rel, environ, resp, nCalls, procs, mgrVars>>

\* lines 128-129
ExecuteSnapshot ==
    /\ call.pc = "snapshot"
    /\ call' = [call EXCEPT
            !.pc = "spawn",
            !.files_before = snapshot_files(fs, call.project),
            !.did = @ \cup {"before"}]
    /\ UNCHANGED <<fs, vp, rel, environ, resp, nCalls, procs, mgrVars>>

\* the process subprocess.run starts; it writes to the pipes run reads
ChildProc(id) == [exec |-> id, role |-> "child", pipes |-> TRUE]

\* the processes of execution id that hold the write end of its output pipes
PipeHolders(id) == { p \in procs : p.exec = id /\ p.pipes }

\* subprocess.run has stopped reading: the child is gone (it had exited, or is
\* killed now) and the pipes of the execution are closed at the reading end
AfterWait(id) ==
    { [p EXCEPT !.pipes = p.exec # id /\ @] : p \in procs \ {ChildProc(id)} }

\* cmd[0]: a program name, looked up on the child's PATH
Command(language) == IF language = "python" THEN Rel(<<nPY3>>) ELSE Rel(<<nBASH>>)

\* lines 131-150, the spawn inside subprocess.run: the child starts in cwd, or
\* Popen raises (cwd gone, no such program, fork failure) and line 159 wraps it
ExecuteSpawn ==
    /\ call.pc = "spawn"
    /\ \/ /\ isdir(fs, call.working_dir)
          /\ procs' = procs \cup {ChildProc(call.id)}
          /\ call' = [call EXCEPT
                  !.pc = "running",
                  !.runs = @ + 1,
                  !.did = @ \cup {"spawn"},
                  !.spawn = [given    |-> TRUE,
                             argv0    |-> Command(call.language),
                             cwd      |-> call.working_dir,
                             cwd_real |-> realpath(fs, call.working_dir),
                             env      |-> call.env,
                             timeout  |-> call.timeout,
                             returncode |-> 0]]
       \/ /\ call' = [call EXCEPT !.pc = "raised", !.error = "ExecutionError",
                                  !.runs = @ + 1,
                                  !.did = @ \cup {"spawnfailed"}]
          /\ UNCHANGED procs
    /\ UNCHANGED <<fs, vp, rel, environ, resp, nCalls, mgrVars>>

\* the child exits by itself with a status; subprocess.run goes on reading the
\* pipes until every process holding them has closed them
ChildExit(status) ==
    /\ call.pc = "running"
    /\ ChildProc(call.id) \in procs
    /\ procs' = procs \ {ChildProc(call.id)}
    /\ call' = [call EXCEPT !.did = @ \cup {"exited"},
                            !.spawn.returncode = status]
    /\ UNCHANGED <<fs, vp, rel, environ, resp, nCalls, mgrVars>>

\* lines 143-153: the child has exited and the pipes are at end of file:
\* subprocess.run returns
\* subprocess.run returns; out and err are what was read from the pipes
ExecuteCompleted(out, err) ==
    /\ call.pc = "running"
    /\ "exited" \in call.did
    /\ PipeHolders(call.id) = {}
    /\ call' = [call EXCEPT !.pc = "finish",
                            !.exit_code = call.spawn.returncode,
                            !.timed_out = FALSE,
                            !.stdout = out, !.stderr = err,
                            !.did = @ \cup {"completed"}]
    /\ UNCHANGED <<fs, vp, rel, environ, resp, nCalls, procs, mgrVars>>

\* subprocess.run without a timeout: the wait ends with the child only
ExecuteTimedOut_NoTimeout(out) ==
    /\ FALSE
    /\ UNCHANGED vars

\* after the timeout the command is run once more
ExecuteTimedOut_Retry(out) ==
    /\ call.pc = "running"
    /\ procs' = AfterWait(call.id)
    /\ call' = [call EXCEPT !.pc = "spawn", !.did = @ \cup {"timeout"}]
    /\ UNCHANGED <<fs, vp, rel, environ, resp, nCalls, mgrVars>>

\* lines 154-158: the timeout expires while subprocess.run waits; it kills the
\* child it started (Popen.kill, then wait) and raises TimeoutExpired, which
\* carries the output out read so far
ExecuteTimedOut(out) ==
    /\ call.pc = "running"
    /\ procs' = AfterWait(call.id)
    /\ call' = [call EXCEPT !.pc = "finish", !.exit_code = TimeoutExitCode,
                            !.timed_out = TRUE,
                            !.stdout = out,
                            !.stderr = TimeoutMessage(call.timeout),
                            !.did = @ \cup {"timeout"},
                            \* Popen.returncode of a killed child: -SIGKILL
                            !.spawn.returncode =
                                IF "exited" \in call.did THEN @ ELSE -9]
    /\ UNCHANGED <<fs, vp, rel, environ, resp, nCalls, mgrVars>>

\* the failure of the wait reported as a result with the exit code -1
ExecuteWaitFailed_Swallowed ==
    /\ call.pc = "running"
    /\ procs' = AfterWait(call.id)
    /\ call' = [call EXCEPT !.pc = "finish", !.exit_code = TimeoutExitCode,
                            !.did = @ \cup {"waitfailed", "completed"}]
    /\ UNCHANGED <<fs, vp, rel, environ, resp, nCalls, mgrVars>>

\* lines 159-160: subprocess.run raises anything else while it waits (output
\* that is no UTF-8, an I/O error); it has killed the child before
ExecuteWaitFailed ==
    /\ call.pc = "running"
    /\ procs' = AfterWait(call.id)
    /\ call' = [call EXCEPT !.pc = "raised", !.error = "ExecutionError",
                            !.did = @ \cup {"waitfailed"}]
    /\ UNCHANGED <<fs, vp, rel, environ, resp, nCalls, mgrVars>>

\* line 173, without the test of the exit code
success_NoExitTest(exit_code, timed_out) == ~timed_out

\* line 173
success(exit_code, timed_out) == exit_code = 0 /\ ~timed_out

\* lines 162-180
ExecuteFinish ==
    /\ call.pc = "finish"
    /\ LET files_after == snapshot_files(fs, call.project)
       IN  call' = [call EXCEPT
               !.pc = "returned",
               !.did = @ \cup {"after"},
               !.files_after = files_after,
               !.result = [given          |-> TRUE,
                           success        |-> success(call.exit_code, call.timed_out),
                           exit_code      |-> call.exit_code,
                           timed_out      |-> call.timed_out,
                           stdout         |-> truncate(call.stdout),
                           stderr         |-> truncate(call.stderr),
                           files_modified |-> diff_files(call.files_before, files_after)]]
    /\ UNCHANGED <<fs, vp, rel, environ, resp, nCalls, procs, mgrVars>>

\* the result or the exception reaches the caller
ExecuteEnd ==
    /\ call.pc \in {"returned", "raised"}
    /\ call' = CallIdle
    /\ resp' = IF call.via = "http" THEN Respond(call) ELSE resp
    /\ UNCHANGED <<fs, vp, rel, environ, nCalls, procs, mgrVars>>

-----------------------------------------------------------------------------
(* models/requests.py and routers/execution.py: the /tools/execute endpoint *)

OptionsDefaultTimeout == 30
MinTimeout == 1
MaxTimeout == 300

\* ExecuteOptions.timeout: int = Field(default=30, ge=1, le=300)
ExecuteOptions_timeout(raw) ==
    IF ~raw.given THEN [ok |-> TRUE, val |-> OptionsDefaultTimeout]
    ELSE [ok |-> raw.val >= MinTimeout /\ raw.val <= MaxTimeout, val |-> raw.val]

\* ExecuteCodeRequest: code of min_length 1, language matching ^(python|shell)$
ExecuteCodeRequest(code, language, timeout) ==
    /\ Len(code) >= 1
    /\ language \in {"python", "shell"}
    /\ ExecuteOptions_timeout(timeout).ok

\* the timeouts a request body or a direct caller may give:
\* none, -1, 0, 1, 300, 301
RawTimeouts ==
    { NoTimeout, Timeout(-1), Timeout(0), Timeout(1), Timeout(300), Timeout(301) }

\* a request arrives; a body the request model rejects is answered by the
\* framework with 422, and the endpoint function is not entered
execute_code_endpoint(code, language, project_path, working_dir, timeout) ==
    IF ExecuteCodeRequest(code, language, timeout)
    THEN ExecuteStart(Http(timeout), code, language, project_path, working_dir,
                      Timeout(ExecuteOptions_timeout(timeout).val))
    ELSE /\ call.pc = "idle"
         /\ resp.pc = "idle"
         /\ nCalls < MaxCalls
         /\ nCalls' = nCalls + 1
         /\ resp' = [pc |-> "sent", status |-> 422, error |-> "",
                     has_message |-> TRUE, body |-> NoResult]
         /\ UNCHANGED <<fs, vp, rel, environ, call, procs, mgrVars>>

\* the response has gone out
EndpointEnd ==
    /\ resp.pc = "sent"
    /\ resp' = NoResponse
    /\ UNCHANGED <<fs, vp, rel, environ, engVars, mgrVars>>

-----------------------------------------------------------------------------
(* What the executed code does: it is arbitrary code run as the server's user *)

\* the child starts another process ("cmd &", a daemon), which inherits the
\* output pipes or has its output redirected
ProcFork ==
    /\ \E p \in procs, pipes \in BOOLEAN :
           LET q == [exec |-> p.exec, role |-> "descendant",
                     pipes |-> p.pipes /\ pipes]
           IN  /\ \A r \in procs : r.exec = p.exec => r.role = "child"
               /\ procs' = procs \cup {q}
    /\ UNCHANGED <<fs, vp, rel, environ, resp, call, nCalls, mgrVars>>

\* a process the child started ends
ProcExit ==
    /\ \E p \in procs :
           /\ p.role = "descendant"
           /\ procs' = procs \ {p}
    /\ UNCHANGED <<fs, vp, rel, environ, resp, call, nCalls, mgrVars>>

\* a live process removes, creates or replaces the directory s of the project:
\* rmdir s, mkdir s, ln -s /e s, rm s
ProcChangeDir ==
    /\ procs # {}
    /\ \/ fs[SubS].kind = "dir"  /\ fs' = [fs EXCEPT ![SubS] = NoNode]
       \/ fs[SubS].kind = "none" /\ fs' = [fs EXCEPT ![SubS] = DirNode]
       \/ fs[SubS].kind = "none" /\ fs' = [fs EXCEPT ![SubS] = LinkNode(Abs(OutE))]
       \/ fs[SubS].kind = "link" /\ fs' = [fs EXCEPT ![SubS] = NoNode]
    /\ UNCHANGED <<vp, rel, environ, resp, call, nCalls, procs, mgrVars>>

MaxClock == 4

WritableFiles == { FileA, FileB, FileDX }

\* the executed code writes a file of the project (echo > q): the file is
\* there with the current time as its modification time
ProcWrite(q) ==
    /\ call.pc = "running"
    /\ \E p \in procs : p.exec = call.id
    /\ now < MaxClock
    /\ fs[q].kind \in {"none", "file"}
    /\ fs' = [fs EXCEPT ![q] = [FileNode EXCEPT !.mtime = now]]
    /\ now' = now + 1
    /\ call' = [call EXCEPT !.written = @ \cup {q}]
    /\ UNCHANGED <<vp, rel, environ, resp, nCalls, procs, cache, acq, nUuid,
                   issued>>

\* the executed code removes a file of the project (rm q)
ProcUnlink(q) ==
    /\ call.pc = "running"
    /\ \E p \in procs : p.exec = call.id
    /\ fs[q].kind = "file"
    /\ fs' = [fs EXCEPT ![q] = NoNode]
    /\ call' = [call EXCEPT !.written = @ \ {q}]
    /\ UNCHANGED <<vp, rel, environ, resp, nCalls, procs, mgrVars>>

Init ==
    /\ fs \in EnvInits
    /\ vp = VpIdle
    /\ call = CallIdle
    /\ nCalls = 0
    /\ procs = {}
    /\ cache = NoCache
    /\ acq = [c \in Callers |-> AcqIdle]
    /\ nUuid = 0
    /\ now = 1
    /\ issued = [d \in ProjectDirs |-> 0]
    /\ rel = RelIdle
    /\ environ = HostEnv
    /\ resp = NoResponse

Next ==
    \/ \E code \in Codes, language \in Languages, project_path \in ProjectPaths,
          working_dir \in WorkingDirs, timeout \in Timeouts :
           ExecuteStart(Direct(timeout), code, language, project_path,
                        working_dir, timeout)
    \/ ExecutePrepare
    \/ ExecuteSnapshot
    \/ ExecuteSpawn
    \/ \E status \in ExitStatuses : ChildExit(status)
    \/ ExecuteCompleted(<<>>, <<>>)
    \/ ExecuteTimedOut(<<>>)
    \/ ExecuteWaitFailed
    \/ ExecuteFinish
    \/ ExecuteEnd
    \/ ProcFork
    \/ ProcExit
    \/ ProcChangeDir

Spec == Init /\ [][Next]_vars

-----------------------------------------------------------------------------
(* The manager called by one caller at a time *)

InitEnv ==
    /\ fs \in EnvInits
    /\ vp = VpIdle
    /\ call = CallIdle
    /\ nCalls = 0
    /\ procs = {}
    /\ cache = NoCache
    /\ acq = [c \in Callers |-> AcqIdle]
    /\ nUuid = 1
    /\ now = 2
    /\ issued = [d \in ProjectDirs |-> 0]
    /\ rel = RelIdle
    /\ environ = HostEnv
    /\ resp = NoResponse

NextEnv ==
    \/ \E project_path \in ProjectPaths, packages \in PackageLists :
           AcqStart(1, project_path, packages)
    \/ AcqDisk(1)
    \/ AcqCreate(1)
    \/ AcqUpgrade(1)
    \/ AcqInstall(1)
    \/ AcqMetadata(1)
    \/ AcqEnd(1)
    \/ \E project_path \in ProjectPaths : cleanup_sandbox(project_path)
    \/ CleanupEnd
    \/ DamagePython
    \/ DamageSidecar

SpecEnv == InitEnv /\ [][NextEnv]_vars

\* lines 26-27 and 207: the server process ends and a new one constructs its
\* SandboxManager with an empty cache; the disk is what it was
Restart ==
    /\ \A c \in Callers : acq[c].pc = "idle"
    /\ call.pc = "idle"
    /\ rel.pc = "idle"
    /\ cache' = NoCache
    /\ UNCHANGED <<fs, vp, rel, environ, resp, engVars, acq, nUuid, now, issued>>

\* the manager over restarts of the server, the disk left to the manager
NextRestart ==
    \/ \E project_path \in ProjectPaths, packages \in PackageLists :
           AcqStart(1, project_path, packages)
    \/ AcqDisk(1)
    \/ AcqCreate(1)
    \/ AcqUpgrade(1)
    \/ AcqInstall(1)
    \/ AcqMetadata(1)
    \/ AcqEnd(1)
    \/ \E project_path \in ProjectPaths : cleanup_sandbox(project_path)
    \/ CleanupEnd
    \/ Restart

SpecRestart == InitEnv /\ [][NextRestart]_vars

-----------------------------------------------------------------------------
(* Two callers in create_sandbox at once, for projects that start brand-new;
   the manager has no lock, so the steps of the two calls interleave *)

InitConc ==
    /\ fs = BaseFs
    /\ vp = VpIdle
    /\ call = CallIdle
    /\ nCalls = 0
    /\ procs = {}
    /\ cache = NoCache
    /\ acq = [c \in Callers |-> AcqIdle]
    /\ nUuid = 0
    /\ now = 1
    /\ issued = [d \in ProjectDirs |-> 0]
    /\ rel = RelIdle
    /\ environ = HostEnv
    /\ resp = NoResponse

NextConc ==
    \E c \in Callers :
        \/ \E project_path \in ProjectPaths, packages \in PackageLists :
               AcqStart(c, project_path, packages)
        \/ AcqDisk(c)
        \/ AcqCreate(c)
        \/ AcqUpgrade(c)
        \/ AcqInstall(c)
        \/ AcqMetadata(c)
        \/ AcqEnd(c)

SpecConc == InitConc /\ [][NextConc]_vars

-----------------------------------------------------------------------------
(* Two projects with distinct canonical paths, neither inside the other: /p,
   used by caller 1 and released at any time, and /p2, used by caller 2 *)

EnvPathsOf(d) ==
    { venv_path(d), bin_path(d), python_path(d), pip_path(d), lib_path(d),
      metadata_path(d) }

TwoFs == BaseFs @@ [q \in EnvPathsOf(SibP2) |-> NoNode]

InitTwo ==
    /\ fs \in { TwoFs,
                [venv_create(TwoFs, SibP2) EXCEPT
                    ![metadata_path(SibP2)] = DataNode(PersistedMetadata)] }
    /\ vp = VpIdle
    /\ call = CallIdle
    /\ nCalls = 0
    /\ procs = {}
    /\ cache = NoCache
    /\ acq = [c \in Callers |-> AcqIdle]
    /\ nUuid = 1
    /\ now = 2
    /\ issued = [d \in ProjectDirs |-> 0]
    /\ rel = RelIdle
    /\ environ = HostEnv
    /\ resp = NoResponse

PathsOfCaller(c) == IF c = 1 THEN { Abs(ProjP) } ELSE { Abs(SibP2) }

NextTwo ==
    \/ \E c \in Callers :
           \/ \E project_path \in PathsOfCaller(c), packages \in PackageLists :
                  AcqStart(c, project_path, packages)
           \/ AcqDisk(c)
           \/ AcqCreate(c)
           \/ AcqUpgrade(c)
           \/ AcqInstall(c)
           \/ AcqMetadata(c)
           \/ AcqEnd(c)
    \/ \E project_path \in PathsOfCaller(1) :
           cleanup_sandbox_concurrent(project_path)
    \/ CleanupEnd

SpecTwo == InitTwo /\ [][NextTwo]_vars

-----------------------------------------------------------------------------
(* The engine and the manager in one server, which handles one request at a
   time; the requests differ in the language, the project path and the working
   directory, and the executed code starts nothing that outlives it *)

NextAll ==
    \/ \E language \in {"python", "shell"}, project_path \in ProjectPaths,
          working_dir \in {None, Rel(<<nS>>)} :
           ExecuteStart(Direct(NoTimeout), <<"x">>, language, project_path,
                        working_dir, NoTimeout)
    \/ ExecutePrepare
    \/ ExecuteSnapshot
    \/ ExecuteSpawn
    \/ \E status \in ExitStatuses : ChildExit(status)
    \/ ExecuteCompleted(<<>>, <<>>)
    \/ ExecuteTimedOut(<<>>)
    \/ ExecuteWaitFailed
    \/ ExecuteFinish
    \/ ExecuteEnd
    \/ NextEnv

SpecAll == InitEnv /\ [][NextAll]_vars

-----------------------------------------------------------------------------
(* The callers of execute_code: the /tools/execute endpoint, and code that
   calls the function with an options dict of its own; the server was started
   with one of two environments *)

InitHttp ==
    /\ environ \in HostEnvs
    /\ fs = BaseFs
    /\ vp = VpIdle
    /\ call = CallIdle
    /\ nCalls = 0
    /\ procs = {}
    /\ cache = NoCache
    /\ acq = [c \in Callers |-> AcqIdle]
    /\ nUuid = 0
    /\ now = 1
    /\ issued = [d \in ProjectDirs |-> 0]
    /\ rel = RelIdle
    /\ resp = NoResponse

NextHttp ==
    \/ \E code \in { <<>>, <<" ">>, <<"x">> }, language \in Languages,
          project_path \in { Abs(ProjP), Abs(LinkLP), Abs(<<nNX>>) },
          working_dir \in { None, Rel(<<nS>>), Abs(OutE) },
          timeout \in RawTimeouts :
           execute_code_endpoint(code, language, project_path, working_dir,
                                 timeout)
    \/ \E timeout \in RawTimeouts :
           ExecuteStart(Direct(timeout), <<"x">>, "shell", Abs(ProjP), None,
                        timeout)
    \/ ExecutePrepare
    \/ ExecuteSnapshot
    \/ ExecuteSpawn
    \/ \E status \in ExitStatuses : ChildExit(status)
    \/ ExecuteCompleted(<<>>, <<>>)
    \/ ExecuteTimedOut(<<>>)
    \/ ExecuteWaitFailed
    \/ ExecuteFinish
    \/ ExecuteEnd
    \/ EndpointEnd

SpecHttp == InitHttp /\ [][NextHttp]_vars

-----------------------------------------------------------------------------
(* The output of the executed code: nothing, a few characters, ASCII text at
   and just over the limit, text of three-byte characters, and ASCII text
   with two three-byte characters at the limit *)

Outputs ==
    { <<>>,
      <<[w |-> 1, n |-> 5]>>,
      <<[w |-> 1, n |-> MAX_OUTPUT_SIZE]>>,
      <<[w |-> 1, n |-> MAX_OUTPUT_SIZE + 1]>>,
      <<[w |-> 3, n |-> MAX_OUTPUT_SIZE \div 2]>>,
      <<[w |-> 1, n |-> MAX_OUTPUT_SIZE - 1], [w |-> 3, n |-> 2]>> }

NextOut ==
    \/ \E timeout \in Timeouts :
           ExecuteStart(Direct(timeout), <<"x">>, "shell", Abs(ProjP), None,
                        timeout)
    \/ ExecutePrepare
    \/ ExecuteSnapshot
    \/ ExecuteSpawn
    \/ \E status \in ExitStatuses : ChildExit(status)
    \/ \E out \in Outputs, err \in Outputs : ExecuteCompleted(out, err)
    \/ \E out \in Outputs : ExecuteTimedOut(out)
    \/ ExecuteWaitFailed
    \/ ExecuteFinish
    \/ ExecuteEnd

SpecOut == InitConc /\ [][NextOut]_vars

-----------------------------------------------------------------------------
(* Executions whose code writes and removes files of the project: a at the
   top, b in the directory d, and d.x at the top *)

NextFiles ==
    \/ ExecuteStart(Direct(NoTimeout), <<"x">>, "shell", Abs(ProjP), None,
                    NoTimeout)
    \/ ExecutePrepare
    \/ ExecuteSnapshot
    \/ ExecuteSpawn
    \/ \E status \in ExitStatuses : ChildExit(status)
    \/ ExecuteCompleted(<<>>, <<>>)
    \/ ExecuteTimedOut(<<>>)
    \/ ExecuteWaitFailed
    \/ ExecuteFinish
    \/ ExecuteEnd
    \/ \E q \in WritableFiles : ProcWrite(q)
    \/ \E q \in WritableFiles : ProcUnlink(q)

SpecFiles == InitConc /\ [][NextFiles]_vars

-----------------------------------------------------------------------------
(* A project with a dot-directory and an interpreter-cache directory, and
   executed code that writes into them and builds the project's environment *)

nH        == <<".", "h">>
DirCache  == <<nP, nCACHE>>
FileCache == <<nP, nCACHE, nB>>
DirHid    == <<nP, nD, nH>>
FileHid   == <<nP, nD, nH, nB>>

SnapFs ==
    (DirCache :> DirNode) @@ (FileCache :> NoNode) @@
    (DirHid :> DirNode) @@ (FileHid :> NoNode) @@ BaseFs

SnapFiles == { FileB, FileCache, FileHid }

\* the executed code builds the environment of the project (python -m venv
\* .venv and a sidecar), or builds it again
ProcVenv ==
    /\ call.pc = "running"
    /\ \E p \in procs : p.exec = call.id
    /\ now < MaxClock
    /\ LET d == call.project
       IN  /\ fs' = [venv_create(fs, d) EXCEPT
                         ![python_path(d)].mtime = now,
                         ![pip_path(d)].mtime = now,
                         ![metadata_path(d)] =
                             [DataNode(PersistedMetadata) EXCEPT !.mtime = now]]
           /\ call' = [call EXCEPT !.written =
                           @ \cup {python_path(d), pip_path(d), metadata_path(d)}]
    /\ now' = now + 1
    /\ UNCHANGED <<vp, rel, environ, resp, nCalls, procs, cache, acq, nUuid,
                   issued>>

InitSnap ==
    /\ fs = SnapFs
    /\ vp = VpIdle
    /\ call = CallIdle
    /\ nCalls = 0
    /\ procs = {}
    /\ cache = NoCache
    /\ acq = [c \in Callers |-> AcqIdle]
    /\ nUuid = 0
    /\ now = 1
    /\ issued = [d \in ProjectDirs |-> 0]
    /\ rel = RelIdle
    /\ environ = HostEnv
    /\ resp = NoResponse

NextSnap ==
    \/ ExecuteStart(Direct(NoTimeout), <<"x">>, "shell", Abs(ProjP), None,
                    NoTimeout)
    \/ ExecutePrepare
    \/ ExecuteSnapshot
    \/ ExecuteSpawn
    \/ \E status \in ExitStatuses : ChildExit(status)
    \/ ExecuteCompleted(<<>>, <<>>)
    \/ ExecuteTimedOut(<<>>)
    \/ ExecuteWaitFailed
    \/ ExecuteFinish
    \/ ExecuteEnd
    \/ \E q \in SnapFiles : ProcWrite(q)
    \/ ProcVenv

SpecSnap == InitSnap /\ [][NextSnap]_vars

-----------------------------------------------------------------------------
(* Executions as they are scheduled: the server thread goes on whenever it
   can, and the timeout of subprocess.run expires when the wait has not ended
   before; nothing makes the child or the processes it started exit, and
   nothing makes the wait end in another way *)

NextLive ==
    \/ \E timeout \in RawTimeouts :
           ExecuteStart(Direct(timeout), <<"x">>, "shell", Abs(ProjP), None,
                        timeout)
    \/ ExecutePrepare
    \/ ExecuteSnapshot
    \/ ExecuteSpawn
    \/ \E status \in ExitStatuses : ChildExit(status)
    \/ ExecuteCompleted(<<>>, <<>>)
    \/ ExecuteTimedOut(<<>>)
    \/ ExecuteWaitFailed
    \/ ExecuteFinish
    \/ ExecuteEnd
    \/ ProcFork
    \/ ProcExit

SpecLive ==
    /\ InitConc
    /\ [][NextLive]_vars
    /\ WF_vars(ExecutePrepare)
    /\ WF_vars(ExecuteSnapshot)
    /\ WF_vars(ExecuteSpawn)
    /\ WF_vars(ExecuteTimedOut(<<>>))
    /\ WF_vars(ExecuteFinish)
    /\ WF_vars(ExecuteEnd)

-----------------------------------------------------------------------------
(* The path validator applied to the inputs drawn *)

InitPath ==
    /\ fs \in FsVariants
    /\ vp \in [phase : {"input"}, path : Candidates, base : Boundaries,
                out : {Raise("none")}]
    /\ call = CallIdle
    /\ nCalls = 0
    /\ procs = {}
    /\ cache = NoCache
    /\ acq = [c \in Callers |-> AcqIdle]
    /\ nUuid = 0
    /\ now = 1
    /\ issued = [d \in ProjectDirs |-> 0]
    /\ rel = RelIdle
    /\ environ = HostEnv
    /\ resp = NoResponse

ValidatePath ==
    /\ vp.phase = "input"
    /\ vp' = [vp EXCEPT !.phase = "done",
                         !.out = validate_path(fs, vp.path, vp.base)]
    /\ UNCHANGED <<fs, call, nCalls, procs, mgrVars, rel, environ, resp>>

NextPath == ValidatePath

SpecPath == InitPath /\ [][NextPath]_vars

-----------------------------------------------------------------------------
(* C2 *)

IsPrefixSeq(p, s) == Len(p) <= Len(s) /\ \A i \in 1..Len(p) : s[i] = p[i]

CanonBase   == realpath(fs, vp.base)
CanonTarget == realpath(fs, join(vp.base, vp.path))

\* the canonical target is the canonical boundary or begins with it + "/"
Confined ==
    \/ CanonTarget = CanonBase
    \/ IsPrefixSeq(PathString(CanonBase) \o <<SEP>>, PathString(CanonTarget))

\* C2: validate_path returns the canonical target exactly when that target is
\* the canonical boundary or begins with canonical boundary + separator, and
\* raises PathValidationError with no path otherwise; the boundary itself and
\* '../' sequences that resolve back inside are accepted, and a traversal out,
\* an absolute path outside, a symlink pointing outward and a sibling whose
\* name has the boundary's name as a prefix are rejected.
C2_ValidatePathIffConfined ==
    vp.phase = "done" =>
        /\ vp.out.ok <=> Confined
        /\ vp.out.ok => vp.out.path = CanonTarget /\ vp.out.error = "none"
        /\ ~vp.out.ok => vp.out.error = "PathValidationError" /\ vp.out.path = <<>>
        /\ vp.base = ProjP =>
              /\ vp.path \in {Rel(<<>>), Rel(<<DOT>>), Rel(<<DOTDOT, nP>>)}
                    => vp.out = Ok(ProjP)
              /\ vp.path = Rel(<<nD, DOTDOT, nA>>) => vp.out = Ok(FileA)
              /\ vp.path \in {Rel(<<DOTDOT, DOTDOT, nE>>), Rel(<<DOTDOT>>),
                               Abs(OutE), Rel(<<nL>>), Rel(<<nL, nA>>),
                               Rel(<<DOTDOT, nP2>>), Abs(SibP2)}
                    => ~vp.out.ok
              /\ (vp.path = Rel(<<nS>>) /\ fs[SubS] = LinkNode(Abs(OutE)))
                    => ~vp.out.ok

\* the sibling /p2 of the boundary /p has been rejected
C2_Witness ==
    /\ vp.phase = "done"
    /\ vp.base = ProjP
    /\ vp.path = Rel(<<DOTDOT, nP2>>)
    /\ ~vp.out.ok

-----------------------------------------------------------------------------
(* What a request asks for, said without the validator's code *)

IsBlank(code) == \A i \in 1..Len(code) : code[i] \in WS

WellFormed(r) == ~IsBlank(r.code) /\ r.language \in {"python", "shell"}

\* the canonical form of the project path of request r in file system f
CanonProject(f, r) == realpath(f, r.project_path.comps)

ProjectIsDir(f, r) == Node(f, CanonProject(f, r)).kind = "dir"

\* the canonical form of the working directory r asks for
CanonWorkingDir(f, r) == realpath(f, join(CanonProject(f, r), r.opt_working_dir))

\* target is base or lies below it, name by name
Inside(target, base) == IsPrefixSeq(base, target)

\* r reaches the confinement test and fails it
Escapes(f, r) ==
    /\ WellFormed(r)
    /\ ProjectIsDir(f, r)
    /\ Truthy(r.opt_working_dir)
    /\ ~Inside(CanonWorkingDir(f, r), CanonProject(f, r))

\* r passes the confinement test, and what it names is no directory
Absent(f, r) ==
    /\ WellFormed(r)
    /\ ProjectIsDir(f, r)
    /\ Truthy(r.opt_working_dir)
    /\ Inside(CanonWorkingDir(f, r), CanonProject(f, r))
    /\ Node(f, CanonWorkingDir(f, r)).kind # "dir"

\* the step in which execute_code takes a request and validates it
Started == call.pc = "idle" /\ call'.pc # "idle"

NothingRun(c) ==
    /\ c.did \cap {"env", "before", "spawn"} = {}
    /\ ~c.spawn.given
    /\ \A p \in procs : p.exec # c.id

-----------------------------------------------------------------------------
(* The claims *)

\* C1: whenever a child process has been spawned, the canonical form its
\* working directory had at the moment of the spawn is the project directory
\* or a descendant of it.
C1_SpawnCwdInsideProject ==
    call.spawn.given => Inside(call.spawn.cwd_real, call.project)

\* C3: a request whose working_dir fails confinement under the project ends in
\* ExecutionSecurityError, and a call that ended so has built no environment
\* map, taken no snapshot and spawned no child.
C3_EscapeIsSecurityError ==
    /\ [][(Started /\ Escapes(fs, call')) =>
              /\ call'.pc = "raised"
              /\ call'.error = "ExecutionSecurityError"
              /\ procs' = procs]_vars
    /\ [](call.error = "ExecutionSecurityError" =>
              /\ call.pc = "raised"
              /\ NothingRun(call))

\* "../../e" has been refused as a security violation
C3_Witness ==
    /\ call.pc = "raised"
    /\ call.error = "ExecutionSecurityError"
    /\ call.opt_working_dir = Rel(<<DOTDOT, DOTDOT, nE>>)

\* C4: a request with empty or whitespace-only code, or with a language other
\* than the two supported, ends in ExecutionError before the project path is
\* validated and before any environment map, snapshot or spawn; the file
\* system and the environment cache are as they were.
C4_MalformedRequestRaisesFirst ==
    /\ [][(Started /\ ~WellFormed(call')) =>
              /\ fs' = fs
              /\ cache' = cache
              /\ procs' = procs]_vars
    /\ []((call.pc # "idle" /\ ~WellFormed(call)) =>
              /\ call.pc = "raised"
              /\ call.error = "ExecutionError"
              /\ call.did = {}
              /\ NothingRun(call))

\* whitespace-only code with a project path that does not exist: the code is
\* what was reported
C4_Witness ==
    /\ call.pc = "raised"
    /\ call.code = <<" ", "\n">>
    /\ call.project_path = Abs(<<nNX>>)
    /\ call.error = "ExecutionError"

\* C5: execute and acquire end in PathValidationError, before any snapshot,
\* creation or spawn, for a project path whose canonical form is no existing
\* directory; for an existing directory they go on with the canonical form,
\* inside which the working directory lies and under which the environment is
\* cached.
C5_ProjectPathCanonicalOrRejected ==
    /\ (call.pc # "idle" /\ WellFormed(call)) =>
          IF ProjectIsDir(fs, call)
          THEN /\ call.error # "PathValidationError"
               /\ call.project = CanonProject(fs, call)
               /\ call.pc # "raised" => Inside(call.working_dir, CanonProject(fs, call))
               /\ call.spawn.given => call.spawn.env.PROJECT_ROOT = CanonProject(fs, call)
          ELSE /\ call.pc = "raised"
               /\ call.error = "PathValidationError"
               /\ call.did = {"project"}
               /\ NothingRun(call)
    /\ \A c \in Callers : acq[c].pc # "idle" =>
          IF ProjectIsDir(fs, acq[c])
          THEN /\ acq[c].error # "PathValidationError"
               /\ acq[c].project = CanonProject(fs, acq[c])
               /\ acq[c].pc = "returned" =>
                     /\ CanonProject(fs, acq[c]) \in DOMAIN cache
                     /\ cache[CanonProject(fs, acq[c])] = acq[c].ret
                     /\ acq[c].ret.project_path = CanonProject(fs, acq[c])
          ELSE /\ acq[c].pc = "raised"
               /\ acq[c].error = "PathValidationError"
               /\ acq[c].did = {}

\* the project given through the symlink /lp: the child runs in /p and the
\* environment acquired through /lp is cached under /p
C5_Witness ==
    /\ call.pc = "running"
    /\ call.project_path = Abs(LinkLP)
    /\ call.project = ProjP
    /\ Cached(ProjP).given

\* C6: a working_dir that passes confinement and is no existing directory ends
\* in ExecutionError with nothing spawned, and never in the error kind of an
\* escape: the two failures are told apart.
C6_AbsentDirIsExecutionError ==
    [][Started =>
          /\ Absent(fs, call') =>
                /\ call'.pc = "raised"
                /\ call'.error = "ExecutionError"
                /\ call'.error # "ExecutionSecurityError"
                /\ ~call'.spawn.given
                /\ procs' = procs
          /\ Escapes(fs, call') => call'.error # "ExecutionError"]_vars

\* the file "a" of the project was asked for as working directory
C6_Witness ==
    /\ call.pc = "raised"
    /\ call.error = "ExecutionError"
    /\ call.opt_working_dir = Rel(<<nA>>)
    /\ call.did = {"project", "working_dir"}

C8_TimedOutLeavesNoProcess ==
    (call.pc = "returned" /\ call.result.timed_out) =>
        \A p \in procs : p.exec # call.id

\* C9: while a child runs for a project, a ready environment of that project
\* is on disk and in the cache, and python code is run with the interpreter
\* of that environment.
C9_ChildRunsInManagedEnvironment ==
    call.pc = "running" =>
        /\ Cached(call.project).given
        /\ exists(fs, python_path(call.project))
        /\ call.language = "python" =>
              call.spawn.argv0 = Abs(python_path(call.project))

\* C10: a step of acquire taken while the interpreter of the project's
\* environment is on disk neither raises nor runs the creation primitive nor
\* removes the environment directory, and a call that returns gives the id
\* the call before it gave.
C10_ReadyAcquireIsIdempotent ==
    [][\A d \in ProjectDirs :
          ( /\ exists(fs, python_path(d))
            /\ acq[1].pc \in {"idle", "disk"}
            /\ acq'[1].pc # acq[1].pc
            /\ CanonProject(fs, acq'[1]) = d )
          => /\ acq'[1].pc \in {"disk", "returned"}
             /\ acq'[1].did \cap {"create", "rmtree"} = {}
             /\ fs' = fs
             /\ (acq'[1].pc = "returned" /\ issued[d] # 0)
                    => acq'[1].ret.id = issued[d]]_vars

\* C11: when two acquire calls for the same project have both returned, the
\* interpreter of the environment is on disk, only one of the calls ran the
\* creation primitive, neither removed the directory, and the two
\* environments returned and the cache entry carry the same id.
C11_ConcurrentAcquireOneEnvironment ==
    ( /\ acq[1].pc = "returned"
      /\ acq[2].pc = "returned"
      /\ acq[1].project = acq[2].project )
    => LET d == acq[1].project
       IN  /\ acq[1].ret.id = acq[2].ret.id
           /\ Cached(d).given /\ Cached(d).id = acq[1].ret.id
           /\ exists(fs, python_path(d))
           /\ ~("create" \in acq[1].did /\ "create" \in acq[2].did)
           /\ "rmtree" \notin acq[1].did \cup acq[2].did

C13_ChildEnvironmentIsBuilt ==
    call.spawn.given =>
        /\ DOMAIN call.spawn.env =
               { "PATH", "HOME", "PYTHONPATH", "PROJECT_ROOT", "LANG", "LC_ALL",
                 "http_proxy", "https_proxy" }
        /\ call.spawn.env.PATH = "/usr/bin:/bin:/usr/local/bin"
        /\ call.spawn.env.HOME = CanonProject(fs, call)
        /\ call.spawn.env.PROJECT_ROOT = CanonProject(fs, call)
        /\ call.spawn.env.PYTHONPATH = ""
        /\ call.spawn.env.LANG = "C.UTF-8"
        /\ call.spawn.env.LC_ALL = "C.UTF-8"
        /\ call.spawn.env.http_proxy = ""
        /\ call.spawn.env.https_proxy = ""

\* a child was started by a server whose environment has a secret, a proxy and
\* an interpreter search path
C13_Witness ==
    /\ call.spawn.given
    /\ call.pc = "running"
    /\ call.project_path = Abs(LinkLP)
    /\ "SECRET" \in DOMAIN environ
    /\ "https_proxy" \in DOMAIN environ
    /\ environ.PYTHONPATH = "/lib"

\* C14: in every result, stdout and stderr each take at most MAX_OUTPUT_SIZE
\* bytes, each is cut without regard to the other, and a stream that takes no
\* more than that is returned as the child wrote it.
C14_OutputWithinByteBudget ==
    call.result.given =>
        /\ Encoded(call.result.stdout) <= MAX_OUTPUT_SIZE
        /\ Encoded(call.result.stderr) <= MAX_OUTPUT_SIZE
        /\ Encoded(call.stdout) <= MAX_OUTPUT_SIZE
               => call.result.stdout = call.stdout
        /\ Encoded(call.stderr) <= MAX_OUTPUT_SIZE
               => call.result.stderr = call.stderr

Range(seq) == { seq[i] : i \in 1..Len(seq) }

\* C15: files_modified of a result is in strictly ascending string order, its
\* members are the paths of the after-snapshot that the before-snapshot lacks
\* or has with another modification time, and a file the executed code wrote
\* and left in place is in it while a file it did not write, or wrote and
\* removed, or just removed, is not.
C15_FilesModifiedIsSortedDiff ==
    call.result.given =>
        LET m      == call.result.files_modified
            before == call.files_before
            after  == call.files_after
        IN  /\ \A i \in 1..Len(m) : \A j \in 1..Len(m) :
                   i < j => StrLess(m[i], m[j])
            /\ Range(m) =
                   { k \in DOMAIN after :
                         k \notin DOMAIN before \/ before[k] # after[k] }
            /\ \A q \in WritableFiles :
                   RelPath(call.project, q) \in Range(m) <=> q \in call.written

\* d.x and d/b were created, in the order d/b then d.x, and a was removed
C15_Witness ==
    /\ call.result.given
    /\ call.result.files_modified = << nDX, nD \o <<"/">> \o nB >>
    /\ fs[FileB].mtime < fs[FileDX].mtime
    /\ fs[FileA].kind = "none"
    /\ "a" \in { k[1] : k \in DOMAIN call.files_before }

PhaseSteps ==
    { <<"idle", "prepare">>, <<"idle", "raised">>, <<"prepare", "snapshot">>,
      <<"snapshot", "spawn">>, <<"spawn", "running">>, <<"spawn", "raised">>,
      <<"running", "finish">>, <<"running", "raised">>,
      <<"finish", "returned">>, <<"returned", "idle">>, <<"raised", "idle">> }

\* C17: a call moves from validation to the preparation of the environment,
\* the before-snapshot, the run, its end (completed, timed out or failed), the
\* diff and the return, only forwards; the child is started after the
\* before-snapshot, the after-snapshot is taken when the run has completed or
\* timed out and the child is gone, and subprocess.run is called at most once.
C17_PhasesInOrder ==
    /\ [][call'.pc # call.pc => <<call.pc, call'.pc>> \in PhaseSteps]_vars
    /\ [][(call'.pc = call.pc /\ call.pc # "idle") => call'.id = call.id]_vars
    /\ [](call.runs <= 1)
    /\ [](call.pc \in {"prepare", "snapshot", "spawn"} => call.runs = 0)
    /\ []("env" \in call.did <=>
              call.pc \in {"snapshot", "spawn", "running", "finish", "returned"}
              \/ (call.pc = "raised" /\ call.runs = 1))
    /\ [](call.spawn.given => {"env", "before"} \subseteq call.did)
    /\ []("after" \in call.did <=> call.pc = "returned")
    /\ [](call.pc \in {"finish", "returned"} =>
              /\ call.spawn.given
              /\ call.did \cap {"completed", "timeout"} # {}
              /\ ChildProc(call.id) \notin procs)

\* a call that timed out has returned after one run and both snapshots
C17_Witness ==
    /\ call.pc = "returned"
    /\ {"env", "before", "spawn", "timeout", "after"} \subseteq call.did
    /\ call.runs = 1

\* C18: a call whose spawn or wait fails raises ExecutionError and has no
\* result, no after-snapshot and no diff; after the raise the call does
\* nothing more, and no failure of the spawn or the wait ends in a result or
\* in another exception.
C18_SpawnFailedIsTerminal ==
    /\ [][(call.pc \in {"spawn", "running"} /\ call'.pc = "raised") =>
             /\ call'.error = "ExecutionError"
             /\ call'.did \cap {"spawnfailed", "waitfailed"} # {}]_vars
    /\ [](call.did \cap {"spawnfailed", "waitfailed"} # {} =>
             /\ call.pc = "raised"
             /\ call.error = "ExecutionError"
             /\ ~call.result.given
             /\ "after" \notin call.did
             /\ call.files_after = <<>>
             /\ call.result.files_modified = <<>>)
    /\ [][call.pc = "raised" =>
             \/ call' = call
             \/ call' = CallIdle /\ fs' = fs /\ procs' = procs]_vars

\* the child had exited, and reading its output failed
C18_Witness ==
    /\ call.pc = "raised"
    /\ call.error = "ExecutionError"
    /\ {"exited", "waitfailed"} \subseteq call.did

C20_TimeoutPositiveAndBounded ==
    call.spawn.given =>
        /\ call.spawn.timeout \in MinTimeout..MaxTimeout
        /\ ~call.req_timeout.given => call.spawn.timeout = 30

\* the paths of the environment directory of project d
EnvTree(d) ==
    { q \in EnvPaths : Len(q) > Len(d) /\ SubSeq(q, 1, Len(d) + 1) = venv_path(d) }

C22_FailedCreationNeverReady ==
    /\ [][( /\ acq[1].pc = "create"
            /\ acq'[1].pc = "raised" )
          => /\ acq'[1].error = "SandboxError"
             /\ fs'[metadata_path(acq[1].project)] = fs[metadata_path(acq[1].project)]
             /\ cache' = cache]_vars
    /\ [][acq[1].pc = "raised" => acq'[1].pc \in {"raised", "idle"}]_vars
    /\ [][(acq[1].pc # "returned" /\ acq'[1].pc = "returned")
          => exists(fs', pip_path(acq'[1].project))]_vars


\* what is installed in the environment of project d
installed(f, d) ==
    IF exists(f, lib_path(d)) THEN Node(f, lib_path(d)).data.packages ELSE {}

\* C23: when the installation of the requested packages fails, acquire raises
\* SandboxError and that step writes no sidecar and no cache entry; a call
\* that writes the sidecar, and every step that writes a cache entry, comes
\* after the installation of the packages the call asked for has succeeded.
C23_WrittenOnlyAfterInstall ==
    /\ [][(acq[1].pc = "install" /\ acq'[1].pc = "raised"
             /\ exists(fs, pip_path(acq[1].project)))
          => /\ acq'[1].error = "SandboxError"
             /\ fs' = fs
             /\ cache' = cache]_vars
    /\ [][(acq[1].pc = "metadata" /\ acq'[1].pc = "returned")
          => acq[1].packages \subseteq installed(fs, acq[1].project)]_vars
    /\ [][\A d \in ProjectDirs :
             (Cached(d)' # Cached(d) /\ Cached(d)'.given)
                => acq'[1].packages \subseteq installed(fs', d)]_vars

\* C24: an acquire that returns an environment with status ready returns one
\* in which every requested package is installed, whether it was created,
\* loaded from disk or found in the cache.
C24_ReadyMeansBuiltAndInstalled ==
    [][(acq[1].pc # "returned" /\ acq'[1].pc = "returned"
          /\ acq'[1].ret.status = "ready")
       => acq'[1].packages \subseteq installed(fs', acq'[1].project)]_vars


\* C25: whatever happens to pip's upgrade of itself (non-zero exit, timeout,
\* the command not runnable), the acquire goes on to the installation: the
\* upgrade step never ends the call.
C25_UpgradeNeverFatal ==
    [][acq[1].pc = "upgrade" => acq'[1].pc \in {"upgrade", "install"}]_vars


\* C26: emptying the cache leaves the disk as it is, and an acquire that finds
\* the environment of its project on disk returns it without creating or
\* removing anything, with the id and the creation time of the sidecar, and
\* with the id the project's environment was returned with before.
C26_CacheIsOnlyAnIndex ==
    /\ [][(cache # NoCache /\ cache' = NoCache /\ rel'.pc = "idle") => fs' = fs]_vars
    /\ [][\A d \in ProjectDirs :
             ( /\ acq[1].pc = "disk"
               /\ acq'[1].pc # "disk"
               /\ acq[1].project = d
               /\ exists(fs, python_path(d)) )
             => /\ acq'[1].pc = "returned"
                /\ fs' = fs
                /\ acq'[1].did \cap {"create", "rmtree"} = {}
                /\ exists(fs, metadata_path(d))
                      => /\ acq'[1].ret.id = Node(fs, metadata_path(d)).data.id
                         /\ acq'[1].ret.created_at =
                                Node(fs, metadata_path(d)).data.created_at
                /\ issued[d] # 0 => acq'[1].ret.id = issued[d]]_vars


\* C27: an acquire that finds on disk the environment directory, its
\* interpreter and a sidecar that cannot be parsed removes the directory and
\* goes on to build a new environment; it does not raise and does not return
\* or cache anything at that step.
C27_UnparsedSidecarIsRebuilt ==
    [][\A d \in ProjectDirs :
          ( /\ acq[1].pc = "disk"
            /\ acq'[1].pc # "disk"
            /\ acq[1].project = d
            /\ exists(fs, python_path(d))
            /\ exists(fs, metadata_path(d))
            /\ ~Node(fs, metadata_path(d)).data.json )
          => /\ acq'[1].pc = "create"
             /\ ~exists(fs', metadata_path(d))
             /\ cache' = cache]_vars


\* the names of a relative path string
RECURSIVE Split(_)
Split(r) ==
    IF \A i \in 1..Len(r) : r[i] # "/" THEN <<r>>
    ELSE LET k == CHOOSE i \in 1..Len(r) :
                      r[i] = "/" /\ \A j \in 1..(i - 1) : r[j] # "/"
         IN  <<SubSeq(r, 1, k - 1)>> \o Split(SubSeq(r, k + 1, Len(r)))

\* a directory of the path string starts with "." or is __pycache__
HasSkippedDirectory(r) ==
    \E i \in 1..(Len(Split(r)) - 1) :
        Head(Split(r)[i]) = "." \/ Split(r)[i] = nCACHE

\* q is a file of project d with only plain directories above it
InOtherDirectory(f, d, q) ==
    /\ Len(q) > Len(d)
    /\ SubSeq(q, 1, Len(d)) = d
    /\ f[q].kind = "file"
    /\ \A i \in (Len(d) + 1)..(Len(q) - 1) :
           /\ f[SubSeq(q, 1, i)].kind = "dir"
           /\ Head(q[i]) # "."
           /\ q[i] # nCACHE

\* C28: no path of a snapshot or of files_modified has a directory that
\* starts with "." or is __pycache__, whatever was written below the
\* environment directory during the request; and when a snapshot is taken
\* every file with only other directories above it is in the snapshot.
C28_SnapshotSkipsReservedDirectories ==
    /\ [][/\ \A r \in DOMAIN call'.files_before \cup DOMAIN call'.files_after
                        \cup Range(call'.result.files_modified) :
                 ~HasSkippedDirectory(r)
          /\ \A q \in DOMAIN fs :
                 /\ (call.pc = "snapshot" /\ call'.pc = "spawn"
                       /\ InOtherDirectory(fs, call.project, q))
                      => RelPath(call.project, q) \in DOMAIN call'.files_before
                 /\ (~call.result.given /\ call'.result.given
                       /\ InOtherDirectory(fs, call.project, q))
                      => RelPath(call.project, q) \in DOMAIN call'.files_after]_vars

\* during the request the environment was built and files were written in
\* __pycache__, in a dot-directory and in d; only d/b is reported
C28_Witness ==
    /\ call.result.given
    /\ {FileB, FileCache, metadata_path(ProjP)} \subseteq call.written
    /\ fs[python_path(ProjP)].kind = "file"
    /\ fs[FileCache].kind = "file"
    /\ call.result.files_modified = << nD \o <<"/">> \o nB >>


\* what the manager keeps for project d: the cache entry and the nodes of the
\* environment directory
Kept(c, f, d) ==
    <<IF d \in DOMAIN c THEN c[d] ELSE NoSandbox,
      [q \in { x \in DOMAIN f : Len(x) > Len(d)
                                  /\ SubSeq(x, 1, Len(d) + 1) = venv_path(d) }
         |-> f[q]]>>

\* C29: with caller 1 and the releases working on /p and caller 2 on /p2, a
\* step that is not caller 2's leaves the cache entry, the environment
\* directory and the sidecar of /p2 as they are, and a step of caller 2 leaves
\* those of /p as they are; what caller 2 is returned is the environment of
\* /p2, and when /p2 had a sidecar, with the id of that sidecar.
C29_ProjectsDoNotInterfere ==
    /\ [][acq'[2] = acq[2]
           => Kept(cache', fs', SibP2) = Kept(cache, fs, SibP2)]_vars
    /\ [][acq'[2] # acq[2]
           => Kept(cache', fs', ProjP) = Kept(cache, fs, ProjP)]_vars
    /\ [][(acq[2].pc # "returned" /\ acq'[2].pc = "returned")
           => /\ acq'[2].ret.project_path = SibP2
              /\ acq'[2].ret.venv_path = venv_path(SibP2)
              /\ acq'[2].ret = Cached(SibP2)'
              /\ exists(fs, metadata_path(SibP2))
                    => acq'[2].ret.id = Node(fs, metadata_path(SibP2)).data.id]_vars

\* caller 2 got the environment of /p2 that was on disk while caller 1 had
\* built one for /p, and /p has since been released
C29_Witness ==
    /\ acq[2].pc = "returned"
    /\ acq[2].ret.id = 1
    /\ acq[1].pc = "idle"
    /\ nUuid > 1
    /\ rel.removed
    /\ ~exists(fs, venv_path(ProjP))
    /\ Cached(SibP2).given
    /\ exists(fs, metadata_path(SibP2))


\* C30: every key of the cache is a canonical path of a directory, and the
\* entry under key p has project_path p, the environment root p/.venv, an
\* interpreter path inside that root and the status ready; so one project has
\* at most one entry, whatever spellings of its path were used.
C30_CacheKeysCanonical ==
    /\ \A p \in DOMAIN cache :
           /\ realpath(fs, p) = p
           /\ isdir(fs, p)
           /\ cache[p].given
           /\ cache[p].project_path = p
           /\ cache[p].venv_path = venv_path(p)
           /\ Len(cache[p].python_path) > Len(venv_path(p))
           /\ SubSeq(cache[p].python_path, 1, Len(venv_path(p))) = venv_path(p)
           /\ cache[p].status = "ready"
    /\ \A p \in DOMAIN cache : \A q \in DOMAIN cache :
           realpath(fs, p) = realpath(fs, q) => p = q

\* an acquire called with the symlink spelling /lp has stored its entry, the
\* only one, under /p
C30_Witness ==
    /\ acq[1].pc = "returned"
    /\ acq[1].project_path = Abs(LinkLP)
    /\ "metadata" \in acq[1].did
    /\ DOMAIN cache = {ProjP}
    /\ cache[ProjP].id = acq[1].sandbox_id

====
